---- MODULE Spec2Model ----
(***************************************************************************)
(* Ribbon XML pull/push of excel_com/ribbon.py over a small file system.   *)
(* A user file is absent, a ZIP archive holding a mapping from entry path  *)
(* to bytes, an XML file holding bytes, or a file that is neither (other   *)
(* content, zero-byte after an open for writing, partially written).       *)
(* Paths are sequences of segments; bytes are small integers.  Archive     *)
(* entries are file entries; an entry may lie beneath another entry's      *)
(* path, also beneath a ribbon candidate path.                             *)
(* Each line of pull_ribbon_xml / push_ribbon_xml that touches the file    *)
(* system is one step, so the states between the steps are visible.        *)
(***************************************************************************)
EXTENDS Integers, Sequences, FiniteSets, TLC

\* ------------------------------------------------------------------ bounds
NumBlobs == 2
MaxOps == 2

\* ------------------------------------------------------------------ paths
None == <<>>
NoName == "None"

CUSTOMUI14 == <<"customUI", "customUI14.xml">>
CUSTOMUI == <<"customUI", "customUI.xml">>
ContentTypes == <<"[Content_Types].xml">>
CustomUIFile == <<"customUI">>
Nested14 == CUSTOMUI14 \o <<"item.xml">>
NestedUI == CUSTOMUI \o <<"item.xml">>

RIBBON_CANDIDATE_PATHS == <<CUSTOMUI14, CUSTOMUI>>

DefaultTarget == CUSTOMUI14

ValidTargetNames == {"customUI14.xml", "customUI.xml"}

TargetNames == ValidTargetNames \cup {"evil.xml"}

EntryPaths == {ContentTypes, CUSTOMUI14, CUSTOMUI, CustomUIFile, Nested14, NestedUI}

Cwd == <<"/", "work">>
BookArg == <<"Book.xlsm">>
OutArg == <<"build", "Out.xlsm">>
XmlArg == <<"updated.xml">>
OutXmlArgs == {<<"ribbon", "out.xml">>, <<"/", "work", "ribbon", "out.xml">>, BookArg}

\* Path.resolve(): an absolute path stays, a relative one is taken from the
\* working directory.
Resolve(p) == IF p[1] = "/" THEN p ELSE Cwd \o p

Parent(p) == SubSeq(p, 1, Len(p) - 1)

RelativeTo(p, root) == SubSeq(p, Len(root) + 1, Len(p))

IsUnder(p, d) == Len(p) > Len(d) /\ SubSeq(p, 1, Len(d)) = d

BookPath == Cwd \o BookArg
OutPath == Cwd \o OutArg
XmlPath == Cwd \o XmlArg
OutXmlPath == Cwd \o <<"ribbon", "out.xml">>
PackagePaths == {BookPath, OutPath}
UserPaths == {BookPath, OutPath, XmlPath, OutXmlPath}

ExtractedRoot == <<"extracted">>

\* ------------------------------------------------------------------ files
Blobs == 1 .. NumBlobs
NoBytes == 0
\* some of a file's bytes, possibly none: a write that was stopped
PartialBytes == -1

EmptyMap == [p \in {} |-> 0]

Absent == [kind |-> "absent", entries |-> EmptyMap, bytes |-> NoBytes]
Garbage == [kind |-> "garbage", entries |-> EmptyMap, bytes |-> NoBytes]
ZeroByte == [kind |-> "empty", entries |-> EmptyMap, bytes |-> NoBytes]
Partial == [kind |-> "partial", entries |-> EmptyMap, bytes |-> NoBytes]
Zip(f) == [kind |-> "zip", entries |-> f, bytes |-> NoBytes]
Xml(b) == [kind |-> "xml", entries |-> EmptyMap, bytes |-> b]

\* the bytes of an entry of an input package: customUI/customUI.xml differs
\* from customUI/customUI14.xml
EntryValues(p) == IF p = CUSTOMUI THEN {NumBlobs} ELSE {1}

\* the input packages: [Content_Types].xml and any of the other entries
Packages ==
  UNION { {f \in [S -> Blobs] : \A p \in S : f[p] \in EntryValues(p)} :
            S \in {T \in SUBSET EntryPaths : ContentTypes \in T} }

\* writing bytes v to the file k of a tree: created or overwritten
UpdateMap(f, k, v) == [p \in DOMAIN f \cup {k} |-> IF p = k THEN v ELSE f[p]]

\* ------------------------------------------------------------------ errors
NoErr == [type |-> "none", msg |-> ""]
RibbonNotFound == [type |-> "FileNotFoundError", msg |-> "No ribbon XML found"]
XmlNotFound == [type |-> "FileNotFoundError", msg |-> "Ribbon XML not found"]
WorkbookNotFound == [type |-> "FileNotFoundError", msg |-> "No such file or directory"]
InvalidTarget == [type |-> "ValueError", msg |-> "target_name must be customUI14.xml or customUI.xml"]
BadZipFile == [type |-> "BadZipFile", msg |-> "File is not a zip file"]
NotADirectory == [type |-> "NotADirectoryError", msg |-> "Not a directory"]
IsADirectory == [type |-> "IsADirectoryError", msg |-> "Is a directory"]
MkdirError == [type |-> "FileExistsError", msg |-> "File exists"]
IOFailure == [type |-> "OSError", msg |-> "I/O error"]
MkdtempFailure == [type |-> "OSError", msg |-> "workspace not created"]
CleanupFailure == [type |-> "OSError", msg |-> "workspace cleanup failed"]

\* ------------------------------------------------------------------ helpers of ribbon.py
\* Path.exists() of a path inside the extracted tree: a file or a directory.
PathExists(fls, drs, rel) == rel \in DOMAIN fls \/ rel \in drs

FindLastRibbonPath(fls, drs) ==
  LET hits == {i \in 1 .. Len(RIBBON_CANDIDATE_PATHS) :
                 PathExists(fls, drs, RIBBON_CANDIDATE_PATHS[i])}
  IN IF hits = {} THEN None
     ELSE ExtractedRoot \o RIBBON_CANDIDATE_PATHS[CHOOSE i \in hits : \A j \in hits : i >= j]

\* _find_existing_ribbon_path: first candidate, in order, that exists.
FindExistingRibbonPath(fls, drs) ==
  LET hits == {i \in 1 .. Len(RIBBON_CANDIDATE_PATHS) :
                 PathExists(fls, drs, RIBBON_CANDIDATE_PATHS[i])}
  IN IF hits = {} THEN None
     ELSE ExtractedRoot \o RIBBON_CANDIDATE_PATHS[CHOOSE i \in hits : \A j \in hits : i <= j]

\* push_ribbon_xml lines 95-98: the relative entry path push writes.
ResolveTarget(name, existing) ==
  IF name = NoName
  THEN IF existing # None THEN RelativeTo(existing, ExtractedRoot) ELSE DefaultTarget
  ELSE <<"customUI", name>>

TargetAcceptedAny(name) == TRUE

\* push_ribbon_xml line 85: the target override is accepted.
TargetAccepted(name) == name = NoName \/ name \in ValidTargetNames

ZipFromDirTopLevel(fls) == [p \in {q \in DOMAIN fls : Len(q) = 1} |-> fls[p]]

\* _rebuild_zip_from_dir lines 27-30: every regular file under source_dir,
\* at its path relative to source_dir.
ZipFromDir(fls) == fls

\* shutil.copy2: the destination gets the source's bytes, the source stays.
Copy2(content) == [src |-> content, dst |-> content]

\* tempfile.TemporaryDirectory.__exit__ with the exception e of the body
\* pending (NoErr when the body completed): rmtree removes the directory and
\* e stays pending, or the cleanup raises, with the directory left behind or
\* already removed, and its exception takes the place of e.
TempDirExit(e) ==
  {[removed |-> TRUE, err |-> e]} \cup
  {[removed |-> r, err |-> CleanupFailure] : r \in BOOLEAN}

\* ZipFile.extractall fails when an entry lies beneath another file entry.
Conflict(f) == \E p \in DOMAIN f : \E q \in DOMAIN f : IsUnder(q, p)

Restrict(f, S) == [p \in S |-> f[p]]

\* The entries extractall has written when it fails on entry e: any set S of
\* entries that can precede e in the archive (they extract without
\* collision) and that holds an entry e collides with.
ExtractedBefore(f, e) ==
  {S \in SUBSET (DOMAIN f \ {e}) :
     /\ ~Conflict(Restrict(f, S))
     /\ \E q \in S : IsUnder(e, q) \/ IsUnder(q, e)}

\* The exception of the failing entry e after the entries S: e lies beneath
\* a file already written (its parent cannot be made or entered), or e is
\* the name of a directory already made (it cannot be opened for writing).
ExtractCollision(e, S) ==
  IF \E q \in S : IsUnder(e, q) THEN NotADirectory ELSE IsADirectory

\* the directories extractall creates for the entries of f
DirsOf(f) == UNION {{SubSeq(p, 1, n) : n \in 1 .. Len(p) - 1} : p \in DOMAIN f}

\* ------------------------------------------------------------------ state
VARIABLES
  pc,               \* position inside the running operation, "idle" between operations
  op,               \* "none", "pull" or "push": the running or last operation
  result,           \* "none", "running", "returned" or "raised"
  err,              \* the exception that was raised
  ret,              \* the returned path
  workbook_path, output_xml_path, ribbon_xml_path, destination_workbook, target_name,
  ribbon_path, target_relative,
  fs,               \* the user's files: UserPaths -> file
  udirs,            \* the user's directories that exist
  ws,               \* the workspace directory of the running or last operation exists
  made,             \* a workspace directory was created by this operation
  wsZip, wsTmp,     \* workspace/workbook.zip and workspace/workbook.zip.tmp
  files, dirs,      \* regular files and directories under workspace/extracted
  pre,              \* the user's files and directories when the operation started
  prev,             \* the push before this operation, when it returned
  nops

vars == <<pc, op, result, err, ret, workbook_path, output_xml_path, ribbon_xml_path,
          destination_workbook, target_name, ribbon_path, target_relative,
          fs, udirs, ws, made, wsZip, wsTmp, files, dirs, pre, prev, nops>>

args == <<workbook_path, output_xml_path, ribbon_xml_path, destination_workbook, target_name>>
workspace == <<ws, made, wsZip, wsTmp, files, dirs>>

NoPrev == [op |-> "none", ok |-> FALSE, dest |-> None, xml |-> Absent, name |-> NoName]

Init ==
  /\ pc = "idle" /\ op = "none" /\ result = "none" /\ err = NoErr /\ ret = None
  /\ workbook_path = None /\ output_xml_path = None /\ ribbon_xml_path = None
  /\ destination_workbook = None /\ target_name = NoName
  /\ ribbon_path = None /\ target_relative = None
  /\ \E b \in {Zip(f) : f \in Packages} \cup {Absent, Garbage} :
       \E x \in {Xml(c) : c \in Blobs} \cup {Absent} :
         fs = [p \in UserPaths |-> IF p = BookPath THEN b
                                   ELSE IF p = XmlPath THEN x
                                   ELSE Absent]
  /\ udirs = {Cwd}
  /\ ws = FALSE /\ made = FALSE /\ wsZip = Absent /\ wsTmp = Absent
  /\ files = EmptyMap /\ dirs = {}
  /\ pre = [fs |-> fs, udirs |-> udirs]
  /\ prev = NoPrev
  /\ nops = 0

\* ------------------------------------------------------------------ steps
Begin(o) ==
  /\ pc = "idle" /\ nops < MaxOps
  /\ op' = o
  /\ ret' = None
  /\ ribbon_path' = None /\ target_relative' = None
  /\ pre' = [fs |-> fs, udirs |-> udirs]
  /\ prev' = (IF op = "push" /\ result = "returned"
              THEN [op |-> op, ok |-> TRUE, dest |-> destination_workbook,
                    xml |-> pre.fs[XmlPath], name |-> target_name]
              ELSE NoPrev)
  /\ made' = FALSE
  /\ ws' = FALSE /\ wsZip' = Absent /\ wsTmp' = Absent /\ files' = EmptyMap /\ dirs' = {}
  /\ UNCHANGED <<fs, udirs>>

\* pull_ribbon_xml lines 55-56
StartPull ==
  \E w \in {BookArg, OutArg} : \E o \in OutXmlArgs :
    /\ Begin("pull")
    /\ workbook_path' = Resolve(w)
    /\ output_xml_path' = Resolve(o)
    /\ ribbon_xml_path' = None
    /\ destination_workbook' = None /\ target_name' = NoName
    /\ err' = NoErr /\ result' = "running" /\ pc' = "mktemp"
    /\ nops' = nops

\* push_ribbon_xml lines 79-88
StartPush ==
  \E o \in {None, OutArg} : \E t \in TargetNames \cup {NoName} :
    /\ Begin("push")
    /\ workbook_path' = Resolve(BookArg)
    /\ ribbon_xml_path' = Resolve(XmlArg)
    /\ output_xml_path' = None
    /\ target_name' = t
    /\ IF fs[ribbon_xml_path'].kind = "absent"
       THEN /\ err' = XmlNotFound /\ result' = "raised" /\ pc' = "idle"
            /\ destination_workbook' = None /\ nops' = nops + 1
       ELSE IF ~TargetAccepted(t)
       THEN /\ err' = InvalidTarget /\ result' = "raised" /\ pc' = "idle"
            /\ destination_workbook' = None /\ nops' = nops + 1
       ELSE /\ err' = NoErr /\ result' = "running" /\ pc' = "mktemp"
            /\ destination_workbook' = (IF o # None THEN Resolve(o) ELSE workbook_path')
            /\ nops' = nops

\* an exception raised inside the with block: it is kept while the
\* workspace is cleaned up
Raise(e) == err' = e /\ pc' = "exit"

\* lines 58 / 90: tempfile.TemporaryDirectory() makes a directory of a fresh
\* name; a workspace an earlier operation left behind is another directory
MkTemp ==
  /\ pc = "mktemp"
  /\ ws' = TRUE /\ made' = TRUE
  /\ wsZip' = Absent /\ wsTmp' = Absent /\ files' = EmptyMap /\ dirs' = {}
  /\ pc' = "copyin"
  /\ UNCHANGED <<op, result, err, ret, args, ribbon_path, target_relative,
                 fs, udirs, pre, prev, nops>>

\* lines 58 / 90: the exception leaves the operation before the with block
\* is entered, so nothing cleans up: the directory could not be made, or it
\* was made (mkdtemp) and the call was stopped before the block began
MkTempFail ==
  /\ pc = "mktemp"
  /\ ws' \in BOOLEAN /\ made' = ws'
  /\ err' = MkdtempFailure /\ result' = "raised" /\ pc' = "idle"
  /\ nops' = nops + 1
  /\ UNCHANGED <<op, ret, args, ribbon_path, target_relative,
                 fs, udirs, wsZip, wsTmp, files, dirs, pre, prev>>

\* _extract_workbook_package lines 38-39
CopyIn ==
  /\ pc = "copyin"
  /\ IF fs[workbook_path].kind = "absent"
     THEN Raise(WorkbookNotFound) /\ UNCHANGED <<wsZip, fs>>
     ELSE /\ wsZip' = Copy2(fs[workbook_path]).dst
          /\ fs' = [fs EXCEPT ![workbook_path] = Copy2(fs[workbook_path]).src]
          /\ pc' = "extract" /\ err' = err
  /\ UNCHANGED <<op, result, ret, args, ribbon_path, target_relative,
                 udirs, ws, made, wsTmp, files, dirs, pre, prev, nops>>

\* _extract_workbook_package lines 41-42 and _extract_zip
Extract ==
  /\ pc = "extract"
  /\ IF wsZip.kind # "zip"
     THEN Raise(BadZipFile) /\ files' = EmptyMap /\ dirs' = {}
     ELSE IF Conflict(wsZip.entries)
     THEN \E e \in DOMAIN wsZip.entries : \E S \in ExtractedBefore(wsZip.entries, e) :
            /\ Raise(ExtractCollision(e, S))
            /\ files' = Restrict(wsZip.entries, S)
            /\ dirs' = DirsOf(files')
     ELSE /\ files' = wsZip.entries
          /\ dirs' = DirsOf(wsZip.entries)
          /\ pc' = "find" /\ err' = err
  /\ UNCHANGED <<op, result, ret, args, ribbon_path, target_relative,
                 fs, udirs, ws, made, wsZip, wsTmp, pre, prev, nops>>

\* lines 61-65 (pull) and 94-100 (push)
Find ==
  /\ pc = "find"
  /\ ribbon_path' = FindExistingRibbonPath(files, dirs)
  /\ IF op = "pull"
     THEN /\ target_relative' = target_relative
          /\ IF ribbon_path' = None
             THEN Raise(RibbonNotFound)
             ELSE pc' = "pull_mkdir" /\ err' = err
     ELSE /\ target_relative' = ResolveTarget(target_name, ribbon_path')
          /\ pc' = "push_mkdir" /\ err' = err
  /\ UNCHANGED <<op, result, ret, args, fs, udirs, workspace, pre, prev, nops>>

\* line 67
PullMkdir ==
  /\ pc = "pull_mkdir"
  /\ udirs' = udirs \cup {Parent(output_xml_path)}
  /\ pc' = "pull_copy_open"
  /\ UNCHANGED <<op, result, err, ret, args, ribbon_path, target_relative,
                 fs, workspace, pre, prev, nops>>

\* line 68: copy2 opens the matched path for reading (a directory cannot
\* be opened), then the output file for writing (it is truncated) ...
PullCopyOpen ==
  /\ pc = "pull_copy_open"
  /\ IF RelativeTo(ribbon_path, ExtractedRoot) \in DOMAIN files
     THEN /\ fs' = [fs EXCEPT ![output_xml_path] = ZeroByte]
          /\ pc' = "pull_copy_write" /\ err' = err
     ELSE Raise(IsADirectory) /\ fs' = fs
  /\ UNCHANGED <<op, result, ret, args, ribbon_path, target_relative,
                 udirs, workspace, pre, prev, nops>>

\* ... writes the matched file's bytes block by block ...
PullCopyWrite ==
  /\ pc = "pull_copy_write"
  /\ fs' = [fs EXCEPT ![output_xml_path] = Partial]
  /\ pc' = "pull_copy_finish"
  /\ UNCHANGED <<op, result, err, ret, args, ribbon_path, target_relative,
                 udirs, workspace, pre, prev, nops>>

\* ... until the last block is written
PullCopyFinish ==
  /\ pc = "pull_copy_finish"
  /\ fs' = [fs EXCEPT ![output_xml_path] =
              Copy2(Xml(files[RelativeTo(ribbon_path, ExtractedRoot)])).dst]
  /\ pc' = "pull_copy_stat"
  /\ UNCHANGED <<op, result, err, ret, args, ribbon_path, target_relative,
                 udirs, workspace, pre, prev, nops>>

\* line 68, end of copy2: the file's times and mode are set (copystat); the
\* bytes are already complete
PullCopyStat ==
  /\ pc = "pull_copy_stat"
  /\ pc' = "exit"
  /\ UNCHANGED <<op, result, err, ret, args, ribbon_path, target_relative,
                 fs, udirs, workspace, pre, prev, nops>>

\* line 101
PushMkdir ==
  /\ pc = "push_mkdir"
  /\ IF Parent(target_relative) \in DOMAIN files
     THEN Raise(MkdirError) /\ dirs' = dirs
     ELSE dirs' = dirs \cup {Parent(target_relative)} /\ pc' = "push_copyxml" /\ err' = err
  /\ UNCHANGED <<op, result, ret, args, ribbon_path, target_relative,
                 fs, udirs, ws, made, wsZip, wsTmp, files, pre, prev, nops>>

\* line 102: copy2 onto a directory writes a file of the source's name
\* inside that directory
CopyXmlDestination ==
  IF target_relative \in dirs
  THEN target_relative \o <<ribbon_xml_path[Len(ribbon_xml_path)]>>
  ELSE target_relative

PushCopyXml ==
  /\ pc = "push_copyxml"
  /\ files' = UpdateMap(files, CopyXmlDestination, Copy2(fs[ribbon_xml_path]).dst.bytes)
  /\ pc' = "rb_open"
  /\ UNCHANGED <<op, result, err, ret, args, ribbon_path, target_relative,
                 fs, udirs, ws, made, wsZip, wsTmp, dirs, pre, prev, nops>>

\* _rebuild_zip_from_dir lines 23-27: a stray temp file is removed, the
\* temp archive is opened for writing
RebuildOpenTmp ==
  /\ pc = "rb_open"
  /\ wsTmp' = ZeroByte
  /\ pc' = "rb_write"
  /\ UNCHANGED <<op, result, err, ret, args, ribbon_path, target_relative,
                 fs, udirs, ws, made, wsZip, files, dirs, pre, prev, nops>>

\* lines 28-30 and the close of the archive
RebuildWriteTmp ==
  /\ pc = "rb_write"
  /\ wsTmp' = Zip(ZipFromDir(files))
  /\ pc' = "rb_unlink"
  /\ UNCHANGED <<op, result, err, ret, args, ribbon_path, target_relative,
                 fs, udirs, ws, made, wsZip, files, dirs, pre, prev, nops>>

\* lines 32-33
RebuildUnlink ==
  /\ pc = "rb_unlink"
  /\ wsZip' = (IF wsZip.kind # "absent" THEN Absent ELSE wsZip)
  /\ pc' = "rb_replace"
  /\ UNCHANGED <<op, result, err, ret, args, ribbon_path, target_relative,
                 fs, udirs, ws, made, wsTmp, files, dirs, pre, prev, nops>>

\* line 34
RebuildReplace ==
  /\ pc = "rb_replace"
  /\ wsZip' = wsTmp /\ wsTmp' = Absent
  /\ pc' = "push_mkdest"
  /\ UNCHANGED <<op, result, err, ret, args, ribbon_path, target_relative,
                 fs, udirs, ws, made, files, dirs, pre, prev, nops>>

\* line 106
PushMkDest ==
  /\ pc = "push_mkdest"
  /\ udirs' = udirs \cup {Parent(destination_workbook)}
  /\ pc' = "copy_open"
  /\ UNCHANGED <<op, result, err, ret, args, ribbon_path, target_relative,
                 fs, workspace, pre, prev, nops>>

\* line 107: copy2 opens the destination for writing (it is truncated) ...
CopyOutOpen ==
  /\ pc = "copy_open"
  /\ fs' = [fs EXCEPT ![destination_workbook] = ZeroByte]
  /\ pc' = "copy_write"
  /\ UNCHANGED <<op, result, err, ret, args, ribbon_path, target_relative,
                 udirs, workspace, pre, prev, nops>>

\* ... writes the archive's bytes block by block ...
CopyOutWrite ==
  /\ pc = "copy_write"
  /\ fs' = [fs EXCEPT ![destination_workbook] = Partial]
  /\ pc' = "copy_finish"
  /\ UNCHANGED <<op, result, err, ret, args, ribbon_path, target_relative,
                 udirs, workspace, pre, prev, nops>>

\* ... until the last block is written
CopyOutFinish ==
  /\ pc = "copy_finish"
  /\ fs' = [fs EXCEPT ![destination_workbook] = Copy2(wsZip).dst]
  /\ pc' = "copy_stat"
  /\ UNCHANGED <<op, result, err, ret, args, ribbon_path, target_relative,
                 udirs, workspace, pre, prev, nops>>

\* line 107, end of copy2: the file's times and mode are set (copystat); the
\* bytes are already complete
CopyOutStat ==
  /\ pc = "copy_stat"
  /\ pc' = "exit"
  /\ UNCHANGED <<op, result, err, ret, args, ribbon_path, target_relative,
                 fs, udirs, workspace, pre, prev, nops>>

\* the file-system calls inside the with block (the lookup of the ribbon
\* path calls Path.exists); the cleanup that ends the block fails in
\* ExitWorkspace
IOSteps == {"copyin", "extract", "find", "pull_mkdir", "pull_copy_open", "pull_copy_write",
            "pull_copy_finish", "pull_copy_stat",
            "push_mkdir", "push_copyxml", "rb_open", "rb_write", "rb_unlink",
            "rb_replace", "push_mkdest", "copy_open", "copy_write", "copy_finish",
            "copy_stat"}

\* the files extractall has written of the archive f when it is stopped: it
\* takes the entries in the archive's order, so some of the entries (those
\* that do not collide), the one being written possibly empty or truncated
WrittenWhenStopped(f) ==
  UNION {{Restrict(f, S)} \cup
         {[p \in S |-> IF p = e THEN PartialBytes ELSE f[p]] : e \in S} :
         S \in {T \in SUBSET DOMAIN f : ~Conflict(Restrict(f, T))}}

\* the directories extractall has made when it is stopped with the files g
\* written: those of g and, for the next entry, some of its parents
DirsWhenStopped(f, g) ==
  {DirsOf(g)} \cup
  {DirsOf(g) \cup {SubSeq(e, 1, n) : n \in {m \in 1 .. k : m < Len(e)}} :
     e \in {x \in DOMAIN f \ DOMAIN g : ~Conflict(Restrict(f, DOMAIN g \cup {x}))},
     k \in 1 .. 2}

\* the regular files of the extracted tree below the directory d
FilesBelow(d) == {p \in DOMAIN files : IsUnder(p, d)}

\* _rebuild_zip_from_dir lines 28-30, stopped: rglob lists the children of a
\* directory, in the order the directory lists them, then does the same for
\* each of its subdirectories, one after another. w are the files the
\* archive holds whole, p the file that was being written, if any.
RECURSIVE ArchivedWhenStopped(_)
ArchivedWhenStopped(d) ==
  LET own == {q \in DOMAIN files : Parent(q) = d}
      subs == {q \in dirs : Parent(q) = d}
      Whole(U) == UNION {FilesBelow(u) : u \in U}
  IN UNION {{[w |-> S, p |-> P] : P \in {{}} \cup {{e} : e \in own \ S}} :
            S \in SUBSET own}
     \cup
     UNION {UNION {{[w |-> own \cup Whole(U) \cup x.w, p |-> x.p] :
                      x \in ArchivedWhenStopped(c)} :
                   c \in subs \ U} :
            U \in SUBSET subs}

\* the scratch files a failing call leaves behind: the call did nothing, or
\* it created or truncated the file it writes and wrote part of it; an
\* archive that is closed after a failed write is well formed and holds the
\* entries written so far
FailOutcomes ==
  LET same == [z |-> wsZip, t |-> wsTmp, f |-> files, d |-> dirs]
  IN CASE pc = "copyin" /\ fs[workbook_path].kind # "absent" ->
            {same, [same EXCEPT !.z = ZeroByte], [same EXCEPT !.z = Partial]}
       [] pc = "extract" /\ wsZip.kind = "zip" ->
            {same} \cup
            UNION {{[same EXCEPT !.f = g, !.d = D] : D \in DirsWhenStopped(wsZip.entries, g)} :
                     g \in WrittenWhenStopped(wsZip.entries)}
       [] pc = "push_copyxml" ->
            {same, [same EXCEPT !.f = UpdateMap(files, CopyXmlDestination, PartialBytes)]}
       [] pc = "rb_write" ->
            {same, [same EXCEPT !.t = Partial]} \cup
            {[same EXCEPT !.t = Zip([q \in (x.w \cup x.p) \cap DOMAIN ZipFromDir(files) |->
                                       IF q \in x.p THEN PartialBytes
                                       ELSE ZipFromDir(files)[q]])] :
               x \in ArchivedWhenStopped(<<>>)}
       [] OTHER -> {same}

\* a file-system call inside the with block raises (disk full, permission,
\* interrupt)
Fail ==
  /\ pc \in IOSteps
  /\ Raise(IOFailure)
  /\ \E w \in FailOutcomes :
       wsZip' = w.z /\ wsTmp' = w.t /\ files' = w.f /\ dirs' = w.d
  /\ UNCHANGED <<op, result, ret, args, ribbon_path, target_relative,
                 fs, udirs, ws, made, pre, prev, nops>>

\* the files and directories of the extracted tree at and beneath the path c
Subtree(c) == {p \in DOMAIN files \cup dirs : p = c \/ IsUnder(p, c)}

\* what rmtree leaves beneath the directory d when it is stopped: it takes
\* the children of d one after another, in the order the directory lists
\* them, unlinks a file, and empties a directory before it removes it. The
\* children U it has not reached are whole; at most one directory c is
\* being emptied, or is empty and not yet removed; the others are gone.
RECURSIVE LeftBeneath(_)
LeftBeneath(d) ==
  LET kids == {p \in DOMAIN files \cup dirs : Parent(p) = d}
      Whole(U) == UNION {Subtree(u) : u \in U}
  IN UNION {{Whole(U)} \cup
            UNION {{Whole(U) \cup {c} \cup x : x \in LeftBeneath(c)} :
                     c \in (kids \ U) \cap dirs} :
            U \in SUBSET kids}

\* what a failed cleanup leaves inside the workspace: workbook.zip and
\* workbook.zip.tmp are each removed or not yet reached, the extracted tree
\* is whole, gone or partly removed
LeftByCleanup ==
  {[z |-> z, t |-> t, f |-> Restrict(files, N \cap DOMAIN files), d |-> N \cap dirs] :
     z \in {wsZip, Absent}, t \in {wsTmp, Absent}, N \in LeftBeneath(<<>>)}

\* end of the with block: the workspace is cleaned up, then the operation
\* returns its path (lines 70 / 109) or the exception propagates
ExitWorkspace ==
  /\ pc = "exit"
  /\ \E x \in TempDirExit(err) :
       /\ ws' = ~x.removed
       /\ err' = x.err
       /\ IF x.removed
          THEN wsZip' = Absent /\ wsTmp' = Absent /\ files' = EmptyMap /\ dirs' = {}
          ELSE \E w \in LeftByCleanup :
                 wsZip' = w.z /\ wsTmp' = w.t /\ files' = w.f /\ dirs' = w.d
  /\ result' = (IF err' = NoErr THEN "returned" ELSE "raised")
  /\ ret' = (IF err' # NoErr THEN None
             ELSE IF op = "pull" THEN output_xml_path ELSE destination_workbook)
  /\ pc' = "idle"
  /\ nops' = nops + 1
  /\ UNCHANGED <<op, args, ribbon_path, target_relative,
                 fs, udirs, made, pre, prev>>

Next ==
  \/ StartPull \/ StartPush \/ MkTemp \/ MkTempFail \/ CopyIn \/ Extract \/ Find
  \/ PullMkdir \/ PullCopyOpen \/ PullCopyWrite \/ PullCopyFinish \/ PullCopyStat
  \/ PushMkdir \/ PushCopyXml
  \/ RebuildOpenTmp \/ RebuildWriteTmp \/ RebuildUnlink \/ RebuildReplace
  \/ PushMkDest \/ CopyOutOpen \/ CopyOutWrite \/ CopyOutFinish \/ CopyOutStat
  \/ Fail \/ ExitWorkspace

Spec == Init /\ [][Next]_vars

TypeOK ==
  /\ result \in {"none", "running", "returned", "raised"}
  /\ op \in {"none", "pull", "push"}
  /\ nops \in 0 .. MaxOps
  /\ \A p \in UserPaths : fs[p].kind \in {"absent", "garbage", "empty", "partial", "zip", "xml"}

\* ------------------------------------------------------------------ properties
Candidates == {CUSTOMUI14, CUSTOMUI}

PushReturned == op = "push" /\ result = "returned"
PullReturned == op = "pull" /\ result = "returned"

\* the package push read, the package it produced, the bytes it was given
PushSource == pre.fs[BookPath].entries
PushResult == fs[destination_workbook].entries
PushBlob == pre.fs[XmlPath].bytes

\* the package pull read
PullSource == pre.fs[workbook_path].entries

UserFilesUntouched == fs = pre.fs /\ udirs = pre.udirs

\* C1 (as stated): the package produced by a successful push has exactly the entry paths
\* of the source package plus the resolved target path, and every entry other
\* than the target has the bytes it had in the source package.
PushAddsOrOverwritesOneEntry ==
  PushReturned =>
    /\ fs[destination_workbook].kind = "zip"
    /\ DOMAIN PushResult = DOMAIN PushSource \cup {target_relative}
    /\ \A e \in DOMAIN PushSource \ {target_relative} : PushResult[e] = PushSource[e]

\* the push before this pull returned and wrote the package this pull reads
PullAfterPush == op = "pull" /\ prev.op = "push" /\ prev.ok /\ prev.dest = workbook_path

\* a failure of the environment, not of the operation's own logic
EnvironmentFailures == {IOFailure, MkdtempFailure, CleanupFailure}

\* the first candidate path that exists in the extracted package f is a
\* directory: an entry of f lies beneath it
Beneath(f, c) == \E q \in DOMAIN f : IsUnder(q, c)

FirstCandidateIsDirectory(f) ==
  \/ Beneath(f, CUSTOMUI14)
  \/ CUSTOMUI14 \notin DOMAIN f /\ Beneath(f, CUSTOMUI)

RebuildDestinationNeverMissing ==
  pc \in {"rb_write", "rb_unlink", "rb_replace", "push_mkdest"} =>
    \/ wsZip = pre.fs[BookPath]
    \/ wsZip = Zip(ZipFromDir(files))

\* C4 (as stated): at every step of a push the destination package holds its
\* content from before the push or the complete new package, and a source
\* package that is not the destination is unaltered.
PushNewPackage == Zip(UpdateMap(PushSource, target_relative, PushBlob))

PushDestinationNeverPartial ==
  (op = "push" /\ destination_workbook # None) =>
    /\ \/ fs[destination_workbook] = pre.fs[destination_workbook]
       \/ target_relative # None /\ fs[destination_workbook] = PushNewPackage
    /\ destination_workbook # BookPath => fs[BookPath] = pre.fs[BookPath]

\* C5 (as stated): the entry a successful push writes follows override > existing
\* candidate (14-variant first) > default customUI/customUI14.xml; that entry
\* holds the pushed bytes and the other candidate is as it was.
ExpectedTarget ==
  IF target_name # NoName THEN <<"customUI", target_name>>
  ELSE IF CUSTOMUI14 \in DOMAIN PushSource THEN CUSTOMUI14
  ELSE IF CUSTOMUI \in DOMAIN PushSource THEN CUSTOMUI
  ELSE CUSTOMUI14

PushTargetPrecedence ==
  PushReturned =>
    /\ target_relative = ExpectedTarget
    /\ ExpectedTarget \in DOMAIN PushResult
    /\ PushResult[ExpectedTarget] = PushBlob
    /\ \A c \in Candidates \ {ExpectedTarget} :
         /\ c \in DOMAIN PushResult <=> c \in DOMAIN PushSource
         /\ c \in DOMAIN PushSource => PushResult[c] = PushSource[c]

\* C6: a successful pull writes the bytes of customUI/customUI14.xml when the
\* package has that entry, else those of customUI/customUI.xml, and returns
\* the resolved output path.
PullFirstMatchWins ==
  PullReturned =>
    /\ CUSTOMUI14 \in DOMAIN PullSource =>
         fs[output_xml_path] = Xml(PullSource[CUSTOMUI14])
    /\ CUSTOMUI14 \notin DOMAIN PullSource =>
         CUSTOMUI \in DOMAIN PullSource /\ fs[output_xml_path] = Xml(PullSource[CUSTOMUI])
    /\ ret = output_xml_path /\ ret \in {OutXmlPath, BookPath} /\ ret[1] = "/"
    /\ fs[ret].kind = "xml"

PullBothCandidatesWitness ==
  /\ PullReturned /\ Candidates \subseteq DOMAIN PullSource
  /\ PullSource[CUSTOMUI14] # PullSource[CUSTOMUI]
  /\ fs[OutXmlPath] = Xml(PullSource[CUSTOMUI14])
  /\ prev.op = "none"

\* C7 (as stated): a push with an unrecognised target name fails with the
\* invalid-target error, creates no workspace and modifies no file.
BadTarget == op = "push" /\ target_name \notin ValidTargetNames \cup {NoName}

BadTargetAlwaysInvalidTargetError ==
  BadTarget => result = "raised" /\ err = InvalidTarget /\ ~made /\ ~ws /\ UserFilesUntouched

\* C7 (amended): a push with an unrecognised target name fails, creates no
\* workspace and modifies no file; the error is the invalid-target error when
\* the ribbon XML input file exists and the not-found error of that file when
\* it does not.
BadTargetRejectedBeforeAnyWrite ==
  BadTarget =>
    /\ result = "raised" /\ ~made /\ ~ws /\ UserFilesUntouched
    /\ pre.fs[XmlPath].kind # "absent" => err = InvalidTarget
    /\ pre.fs[XmlPath].kind = "absent" => err = XmlNotFound

BadTargetWitness ==
  /\ BadTarget /\ result = "raised" /\ err = InvalidTarget
  /\ fs[BookPath].kind = "zip" /\ Parent(OutPath) \notin udirs

\* C8 (as stated): a pull on a package with neither candidate entry (a
\* package that extracts: no entry collides with another) fails with the
\* ribbon-not-found error (unless the environment failed), and at no step
\* creates the output file or its parent directory or changes the package.
NeitherCandidate ==
  /\ op = "pull"
  /\ pre.fs[workbook_path].kind = "zip"
  /\ DOMAIN PullSource \cap Candidates = {}
  /\ ~Conflict(PullSource)

PullWithoutRibbonFails ==
  NeitherCandidate =>
    /\ UserFilesUntouched
    /\ result # "returned"
    /\ (result = "raised" \/ pc = "exit") =>
         err \in {RibbonNotFound} \cup EnvironmentFailures

\* C9 (as stated): at every step of a pull, and after it returned or raised,
\* the file at the package path holds the bytes it held before the call,
\* whatever the output path.
PullNeverChangesPackage ==
  op = "pull" => fs[workbook_path] = pre.fs[workbook_path]

\* C10 (as stated): an operation that returned, or raised inside the block
\* that holds its workspace, has no workspace left; the workspace it used was
\* created fresh by it; failures of the checks made before extraction create
\* none; the exception raised inside the operation is the one that propagates
\* after the cleanup.
WorkspaceScopedInv ==
  /\ (result \in {"returned", "raised"} /\ err # MkdtempFailure) => ~ws /\ pc = "idle"
  /\ result = "returned" => made /\ err = NoErr
  /\ result = "raised" => err # NoErr
  /\ (result = "raised" /\ err \in {XmlNotFound, InvalidTarget}) => ~made

WorkspaceScoped ==
  /\ []WorkspaceScopedInv
  /\ [][/\ pc = "mktemp" => ~ws
        /\ (ws' /\ ~ws) => (pc = "mktemp" /\ made')
        /\ pc = "exit" => (err' = err /\ ~ws')]_vars
====
